---- MODULE Spec2Model ----
(***************************************************************************)
(* A model of wioaspp-getplans.py: the find/download loop, the forced-     *)
(* retry (--try-again) mode and the verify (--update) mode, with the two   *)
(* durable tables (success log, failure log), the downloaded files and the *)
(* remote server as the environment.                                       *)
(*                                                                         *)
(* Text is modelled as a sequence of tokens (short strings); string        *)
(* concatenation is sequence concatenation, and the conversions the script *)
(* applies (quote, unquote, replace, basename, sanitize_filename, str and  *)
(* int of a year) are operators on those sequences.                        *)
(***************************************************************************)
EXTENDS Integers, Sequences, FiniteSets, TLC

(***************************************************************************)
(* Bounds of the model (not program constants).                            *)
(***************************************************************************)
\* runs (process starts) in one behaviour
MaxRuns == 2
\* local filesystem failures (directory creation, file or log writes) in one behaviour
MaxFaults == 1
\* documents the site hosts among the candidate URLs
MaxDocs == 2

(***************************************************************************)
(* Configuration, lines 11-31.                                             *)
(***************************************************************************)
BASE_URL == "https://wioaplans.ed.gov"
FILE_BASE_PATH_PDFS == "/sites/default/files/pdfs/state-plan/"
FILE_BASE_PATH_PLANS == "/sites/default/files/state_plans/"
DELAY_BETWEEN_ATTEMPTS == 5
TARGET_PLAN_YEARS == <<2024, 2022, 2020, 2018, 2016>>
PLAN_YEAR_RANGES == [y \in {2024, 2022, 2020} |->
    IF y = 2024 THEN "2024-2027" ELSE IF y = 2022 THEN "2022-2023" ELSE "2020-2023"]
FOLDER_YEAR_CANDIDATES == [y \in {2024, 2022, 2020} |-> <<y, y + 1>>]

(***************************************************************************)
(* Text helpers.                                                           *)
(***************************************************************************)
Range(s) == {s[i] : i \in 1..Len(s)}

\* str(n) of the integers the script formats: plan years and folder years
YearDigits == [n \in 2016..2025 |->
    CASE n = 2016 -> "2016" [] n = 2017 -> "2017" [] n = 2018 -> "2018"
      [] n = 2019 -> "2019" [] n = 2020 -> "2020" [] n = 2021 -> "2021"
      [] n = 2022 -> "2022" [] n = 2023 -> "2023" [] n = 2024 -> "2024"
      [] n = 2025 -> "2025"]
str(n) == YearDigits[n]

\* int(text) raises ValueError unless text is a decimal number
IsNumber(text) == \E n \in DOMAIN YearDigits : YearDigits[n] = text
int(text) == CHOOSE n \in DOMAIN YearDigits : YearDigits[n] = text

\* f-string / + on text; an empty piece adds nothing
Cat(pieces) == SelectSeq(pieces, LAMBDA t : t # "")

\* urllib.parse.quote: a space becomes %20, letters and _ . - stay
quote(name) == [i \in 1..Len(name) |-> IF name[i] = " " THEN "%20" ELSE name[i]]

\* urllib.parse.unquote
unquote(text) == [i \in 1..Len(text) |-> IF text[i] = "%20" THEN " " ELSE text[i]]

\* name.replace(' ', '_'), line 323
filename_name(name) == [i \in 1..Len(name) |-> IF name[i] = " " THEN "_" ELSE name[i]]

\* the characters re.sub(r'[\\/*?:"<>|]', "", ...) removes, as tokens
ForbiddenChars == {"\\", "/", "//", "*", "?", ":", "\"", "<", ">", "|"}

sanitize_filename(filename) ==
    LET decoded_filename == unquote(filename)
        sanitized == SelectSeq(decoded_filename, LAMBDA t : t \notin ForbiddenChars)
    IN  [i \in 1..Len(sanitized) |-> IF sanitized[i] = " " THEN "_" ELSE sanitized[i]]

\* urljoin(BASE_URL, url_path) for an absolute url_path: host, then the path as written
urljoin(base, url_path) == <<base>> \o url_path

PathSeparators == {"/", "//", FILE_BASE_PATH_PDFS, FILE_BASE_PATH_PLANS}

\* os.path.basename(unquote(urlparse(final_url).path)): what follows the last separator
basename(url) ==
    LET seps == {i \in 1..Len(url) : url[i] \in PathSeparators}
        last == IF seps = {} THEN 1 ELSE CHOOSE i \in seps : \A j \in seps : j <= i
    IN  unquote(SubSeq(url, last + 1, Len(url)))

(***************************************************************************)
(* Ordering of text, as Python compares str: by code point, a proper       *)
(* prefix first.  TokenRank orders the tokens the names are made of.       *)
(***************************************************************************)
TokenOrder == <<" ", "Guam", "New", "Ohio", "York">>
TokenRank(t) == CHOOSE i \in 1..Len(TokenOrder) : TokenOrder[i] = t

RECURSIVE StrLess(_, _)
StrLess(a, b) ==
    IF b = <<>> THEN FALSE
    ELSE IF a = <<>> THEN TRUE
    ELSE IF Head(a) = Head(b) THEN StrLess(Tail(a), Tail(b))
    ELSE TokenRank(Head(a)) < TokenRank(Head(b))

\* sorted(..., key=lambda item: (-item[0], item[1])): year descending, state ascending
KeyLess(k1, k2) == k1[1] > k2[1] \/ (k1[1] = k2[1] /\ StrLess(k1[2], k2[2]))

RECURSIVE SortedKeys(_)
SortedKeys(S) ==
    IF S = {} THEN <<>>
    ELSE LET m == CHOOSE k \in S : \A o \in S \ {k} : KeyLess(k, o)
         IN  <<m>> \o SortedKeys(S \ {m})

\* text.strip(): leading and trailing blanks dropped
RECURSIVE strip(_)
strip(text) ==
    IF text = <<>> THEN text
    ELSE IF Head(text) = " " THEN strip(Tail(text))
    ELSE IF text[Len(text)] = " " THEN strip(SubSeq(text, 1, Len(text) - 1))
    ELSE text

(***************************************************************************)
(* Candidate URLs of one (plan_year, state), lines 370-383.                *)
(***************************************************************************)
suffixes == <<"", "_0", "_1", "_2">>
exts(plan_year) == IF plan_year = 2024 THEN <<".docx">> ELSE <<".pdf">>
base_stem(plan_year, state_fname_part) ==
    state_fname_part \o <<"_PYs_", PLAN_YEAR_RANGES[plan_year]>>
\* stems that offer the bare stem next to the (mod) one
stems_bare_too(plan_year, state_fname_part) ==
    IF plan_year = 2022
    THEN <<base_stem(plan_year, state_fname_part) \o <<"_(mod)">>,
           base_stem(plan_year, state_fname_part)>>
    ELSE <<base_stem(plan_year, state_fname_part)>>

stems(plan_year, state_fname_part) ==
    IF plan_year = 2022
    THEN <<base_stem(plan_year, state_fname_part) \o <<"_(mod)">> >>
    ELSE <<base_stem(plan_year, state_fname_part)>>
folders(plan_year) ==
    IF plan_year \in DOMAIN FOLDER_YEAR_CANDIDATES
    THEN FOLDER_YEAR_CANDIDATES[plan_year] ELSE <<plan_year>>

\* a legacy URL built from the name with its blanks replaced by underscores
LegacyURL_from_filename_name(plan_year, state_name) ==
    LET fname_url == Cat(filename_name(state_name) \o <<".pdf">>)
        url_path == Cat(<<FILE_BASE_PATH_PLANS, str(plan_year), "/">> \o fname_url)
    IN  urljoin(BASE_URL, url_path)

\* line 376: the one legacy URL, built from quote(state_name)
LegacyURL(plan_year, state_name) ==
    LET url_safe_state == quote(state_name)
        fname_url == Cat(url_safe_state \o <<".pdf">>)
        url_path == Cat(<<FILE_BASE_PATH_PLANS, str(plan_year), "/">> \o fname_url)
    IN  urljoin(BASE_URL, url_path)

\* line 383: one pass of the innermost loop body appends two URLs
url_path_normal(folder, fname) == Cat(<<FILE_BASE_PATH_PDFS, str(folder), "/">> \o fname)
url_path_double(folder, fname) == Cat(<<FILE_BASE_PATH_PDFS, str(folder), "//">> \o fname)

\* lines 378-383: folder, stem, suffix, extension loops, outer to inner
ModernURLs(plan_year, state_fname_part) ==
    LET fo == folders(plan_year)
        st == stems(plan_year, state_fname_part)
        ex == exts(plan_year)
        nE == Len(ex)
        nS == Len(suffixes) * nE
        nT == Len(st) * nS
        n == Len(fo) * nT
        pass(i) == (i - 1) \div 2
        folder(i) == fo[(pass(i) \div nT) + 1]
        stem(i) == st[((pass(i) % nT) \div nS) + 1]
        suffix(i) == suffixes[((pass(i) % nS) \div nE) + 1]
        ext(i) == ex[(pass(i) % nE) + 1]
        fname(i) == Cat(stem(i) \o <<suffix(i), ext(i)>>)
    IN  [i \in 1..(2 * n) |->
            IF i % 2 = 1
            THEN urljoin(BASE_URL, url_path_normal(folder(i), fname(i)))
            ELSE urljoin(BASE_URL, url_path_double(folder(i), fname(i)))]

\* a generator that offers the legacy URL twice
GenerateURLs_legacy_twice(plan_year, state_name, state_fname_part) ==
    IF plan_year \in {2016, 2018}
    THEN <<LegacyURL(plan_year, state_name), LegacyURL(plan_year, state_name)>>
    ELSE IF plan_year >= 2020 THEN ModernURLs(plan_year, state_fname_part)
    ELSE <<>>

GenerateURLs(plan_year, state_name, state_fname_part) ==
    IF plan_year \in {2016, 2018} THEN <<LegacyURL(plan_year, state_name)>>
    ELSE IF plan_year >= 2020 THEN ModernURLs(plan_year, state_fname_part)
    ELSE <<>>

(***************************************************************************)
(* The durable tables.  A file is [exists, rows]; the header row is not    *)
(* modelled as a row.  A success row is [Year, State, URL] with Year as    *)
(* text; a failure row is [Year, State, FailedURL] (the Timestamp column   *)
(* is never read back and is left out).                                    *)
(***************************************************************************)
NoFile == [exists |-> FALSE, rows |-> <<>>]
File(rows) == [exists |-> TRUE, rows |-> rows]

EmptyLog == [k \in {} |-> <<>>]
Put(f, k, v) == [x \in DOMAIN f \cup {k} |-> IF x = k THEN v ELSE f[x]]

\* lines 45-59: later rows overwrite earlier ones; rows with an empty URL
\* or a Year that is no number are dropped
RECURSIVE LoadRows(_, _)
LoadRows(rows, log) ==
    IF rows = <<>> THEN log
    ELSE LET row == Head(rows)
         IN  IF IsNumber(row.Year) /\ row.URL # <<>>
             THEN LoadRows(Tail(rows), Put(log, <<int(row.Year), row.State>>, row.URL))
             ELSE LoadRows(Tail(rows), log)

load_download_log(file) == IF ~file.exists THEN EmptyLog ELSE LoadRows(file.rows, EmptyLog)

\* a writer that leaves the URL column empty
SaveRows_without_url(log) ==
    LET sorted_keys == SortedKeys(DOMAIN log)
    IN  [i \in 1..Len(sorted_keys) |->
            [Year |-> str(sorted_keys[i][1]), State |-> sorted_keys[i][2], URL |-> <<>>]]

\* lines 69-71: the rows save_download_log writes to the temporary file
SaveRows(log) ==
    LET sorted_keys == SortedKeys(DOMAIN log)
        kept == SelectSeq(sorted_keys, LAMBDA key : log[key] # <<>>)
    IN  [i \in 1..Len(kept) |->
            [Year |-> str(kept[i][1]), State |-> kept[i][2], URL |-> log[kept[i]]]]

\* lines 75-92
load_failed_urls_set(file) ==
    IF ~file.exists THEN {}
    ELSE {strip(file.rows[i].FailedURL) :
            i \in {j \in 1..Len(file.rows) : file.rows[j].FailedURL # <<>>}}

\* lines 106-109: the row log_failed_url appends
FailedRow(year, state, failed_url) ==
    [Year |-> str(year), State |-> state, FailedURL |-> failed_url]

(***************************************************************************)
(* Inputs: the names the site lists, the command lines, the outcomes of a  *)
(* request.                                                                *)
(***************************************************************************)
Ohio == <<"Ohio">>
Guam == <<"Guam">>
NewYork == <<"New", " ", "York">>

\* what GET BASE_URL yields: no usable page, or the options of the states dropdown
Listings == {[ok |-> FALSE, names |-> <<>>],
             [ok |-> TRUE, names |-> <<Ohio>>],
             [ok |-> TRUE, names |-> <<NewYork>>]}

\* --try-again STATE_NAME ...
RetryArgs == {<<Ohio>>}

\* --update [TARGET ...]
UpdateArgs == {<<>>, <<Ohio>>, <<<<"2024">>>>, <<<<"Ohio", ":", "2022">>>>,
               <<<<"Ohio", ":", "soon">>>>}

CommandLines ==
    {[mode |-> "standard", try_again |-> <<>>, update |-> <<>>]}
    \cup {[mode |-> "retry", try_again |-> a, update |-> <<>>] : a \in RetryArgs}
    \cup {[mode |-> "update", try_again |-> <<>>, update |-> a] : a \in UpdateArgs}

\* Where the site may host a document: for each state listed, the third 2024
\* candidate, the last 2022 candidate and the 2018 URL
PoolPositions == {<<2024, 3>>, <<2022, 16>>, <<2018, 1>>}
DocPool(names) ==
    {GenerateURLs(p[1], n, filename_name(n))[p[2]] : p \in PoolPositions, n \in names}

\* how a request that does not yield a document ends, lines 147-156
\* (a RequestException or any other exception ends as a Timeout does)
FailKinds == {"404", "500", "Timeout"}
TransportKinds == {"Timeout"}

(***************************************************************************)
(* parse_update_targets, lines 160-199.                                    *)
(***************************************************************************)
IsNumberText(text) == Len(text) = 1 /\ IsNumber(text[1])
intText(text) == int(text[1])

NoTargets == [target_states |-> {}, target_years |-> {}, target_state_years |-> {},
              update_all_combinations |-> FALSE]

ParseArg(raw, t) ==
    LET arg == strip(raw)
    IN  IF ":" \in Range(arg)
        THEN LET at == CHOOSE i \in 1..Len(arg) :
                           arg[i] = ":" /\ \A j \in 1..(i - 1) : arg[j] # ":"
                 state_name == strip(SubSeq(arg, 1, at - 1))
                 year_str == strip(SubSeq(arg, at + 1, Len(arg)))
             IN  IF IsNumberText(year_str)
                 THEN [t EXCEPT !.target_state_years =
                                    @ \cup {<<state_name, intText(year_str)>>}]
                 ELSE t
        ELSE IF IsNumberText(arg)
             THEN [t EXCEPT !.target_years = @ \cup {intText(arg)}]
             ELSE [t EXCEPT !.target_states = @ \cup {arg}]

RECURSIVE ParseArgs(_, _)
ParseArgs(update_args, t) ==
    IF update_args = <<>> THEN t
    ELSE ParseArgs(Tail(update_args), ParseArg(Head(update_args), t))

parse_update_targets(update_args) ==
    IF update_args = <<>> THEN [NoTargets EXCEPT !.update_all_combinations = TRUE]
    ELSE LET t == ParseArgs(update_args, NoTargets)
         IN  IF t.target_states = {} /\ t.target_years = {} /\ t.target_state_years = {}
             THEN [t EXCEPT !.update_all_combinations = TRUE]
             ELSE t

\* an update loop that probes every entry, whatever the targets
process_this_item_any(t, year, state, success_url) == success_url # <<>>

\* lines 251-256 and 265: whether the update loop probes this entry
process_this_item(t, year, state, success_url) ==
    /\ \/ t.update_all_combinations
       \/ state \in t.target_states
       \/ year \in t.target_years
       \/ <<state, year>> \in t.target_state_years
    /\ success_url # <<>>

(***************************************************************************)
(* State.                                                                  *)
(***************************************************************************)
VARIABLES
    \* the environment: the site's listing, and the URLs at which it hosts a document
    listing, hosted,
    \* durable storage: wioa_download_log.csv, its .tmp, wioa_failed_urls.csv,
    \* and the files under wioa_plans/
    logFile, tmpFile, failFile, disk,
    \* the command lines the operator may give
    lines,
    \* the process: where it is, its command line, exit status
    pc, args, exit_status,
    \* its two in-memory logs
    download_log, failed_urls_set,
    \* the find/download loops
    states_to_process, si, yi, urls_to_try, ci, found_url_for_combo,
    \* the update loop
    targets, sorted_log_items, ui,
    \* the request whose body is being written: [url, final_url, filepath]
    att,
    \* history kept for the properties
    startLog, startFailed, hist, lastOutcome, flaked, prev, runs, faults, runFaulted,
    \* history: the seconds the process slept right before its latest document request
    slept

envVars == <<listing, hosted, lines>>
durVars == <<logFile, tmpFile, failFile, disk>>
memVars == <<download_log, failed_urls_set>>
loopVars == <<states_to_process, si, yi, urls_to_try, ci, found_url_for_combo>>
updVars == <<targets, sorted_log_items, ui>>
vars == <<envVars, durVars, pc, args, exit_status, memVars, loopVars, updVars, att,
          startLog, startFailed, hist, lastOutcome, flaked, slept, prev, runs, faults,
          runFaulted>>

NoAttempt == [url |-> <<>>, final_url |-> <<>>, filepath |-> <<>>]
NoHist == [key |-> <<>>, urls |-> <<>>]
\* how the run before this one went: "standard" is a standard run that reached
\* its end, "killed" a run of any mode that was interrupted
NoPrev == [kind |-> "none", faulted |-> FALSE]
StandardLine == [mode |-> "standard", try_again |-> <<>>, update |-> <<>>]

FindLines == {c \in CommandLines : c.mode # "update"}

\* the state before the first run, with the command lines the operator may give
StartFrom(listings, command_lines) ==
    /\ listing \in listings
    /\ lines = command_lines
    /\ hosted \in {h \in SUBSET DocPool(Range(listing.names)) : Cardinality(h) <= MaxDocs}
    /\ logFile = NoFile /\ tmpFile = NoFile /\ failFile = NoFile
    /\ disk = [p \in {} |-> "full"]
    /\ pc = "idle" /\ args = StandardLine /\ exit_status = "none"
    /\ download_log = EmptyLog /\ failed_urls_set = {}
    /\ states_to_process = <<>> /\ si = 0 /\ yi = 0
    /\ urls_to_try = <<>> /\ ci = 0 /\ found_url_for_combo = <<>>
    /\ targets = NoTargets /\ sorted_log_items = <<>> /\ ui = 0
    /\ att = NoAttempt
    /\ startLog = EmptyLog /\ startFailed = {} /\ hist = NoHist /\ lastOutcome = "none"
    /\ flaked = {} /\ slept = 0
    /\ prev = NoPrev
    /\ runs = 0 /\ faults = 0 /\ runFaulted = FALSE

Start(command_lines) == StartFrom(Listings, command_lines)

Init == Start(CommandLines)
InitFind == Start(FindLines)
InitStandard == Start({StandardLine})

(***************************************************************************)
(* Positions of the loops.                                                 *)
(***************************************************************************)
BASE_DOWNLOAD_DIR == "wioa_plans"

\* sorted(TARGET_PLAN_YEARS, reverse=True), line 354
SortedYears == SortSeq(TARGET_PLAN_YEARS, LAMBDA a, b : a > b)

\* os.path.join(BASE_DOWNLOAD_DIR, str(year)), lines 271 and 366
year_dir(year) == <<BASE_DOWNLOAD_DIR, "/", str(year)>>

\* lines 129-131: no content-disposition is sent, so the name is the sanitized
\* basename of the final URL
FilePath(target_save_dir, final_url) ==
    target_save_dir \o <<"/">> \o sanitize_filename(basename(final_url))

plan_year == SortedYears[yi]
state_name == states_to_process[si].name
state_fname_part == states_to_process[si].filename_name
log_key == <<plan_year, state_name>>
retry_states == Range(args.try_again)
is_retry_target == state_name \in retry_states

\* a loop that consults neither log: no key and no candidate is passed over
InSuccessLog_never(key, log) == FALSE
skip_this_url_never(retry_target, full_url, failed) == FALSE

\* line 360: the (plan_year, state) is already in the success log
InSuccessLog(key, log) == key \in DOMAIN log

\* a candidate loop that passes over failed URLs for --try-again states as well
skip_this_url_always(retry_target, full_url, failed) == full_url \in failed

\* lines 390-391: a candidate found in the failure set is skipped, unless the
\* state is a --try-again target
skip_this_url(retry_target, full_url, failed) == ~retry_target /\ full_url \in failed

\* lines 386-392: the first candidate from index `from` on that is not skipped
NextCandidate(urls, from, retry_target, failed) ==
    LET tried == {i \in from..Len(urls) : ~skip_this_url(retry_target, urls[i], failed)}
    IN  IF tried = {} THEN Len(urls) + 1
        ELSE CHOOSE i \in tried : \A j \in tried : i <= j

\* lines 246-268: the first log entry from index `from` on that the filter keeps
NextItem(items, from, t, log) ==
    LET kept == {i \in from..Len(items) :
                    process_this_item(t, items[i][1], items[i][2], log[items[i]])}
    IN  IF kept = {} THEN Len(items) + 1
        ELSE CHOOSE i \in kept : \A j \in kept : i <= j

\* response.url, line 122: the site answers at the URL requested (it does not redirect)
FinalURL(url) == url


Prefixes(rows) == {SubSeq(rows, 1, n) : n \in 0..Len(rows)}

ResetMemory ==
    /\ download_log' = EmptyLog /\ failed_urls_set' = {}
    /\ states_to_process' = <<>> /\ si' = 0 /\ yi' = 0
    /\ urls_to_try' = <<>> /\ ci' = 0 /\ found_url_for_combo' = <<>>
    /\ targets' = NoTargets /\ sorted_log_items' = <<>> /\ ui' = 0
    /\ att' = NoAttempt /\ hist' = NoHist /\ lastOutcome' = "none" /\ slept' = 0

\* the process ends with this status
Exit(status) == pc' = "idle" /\ exit_status' = status /\ ResetMemory

\* leave the candidate loop (line 403) and go on to the next plan year or state
GoNextKey ==
    /\ urls_to_try' = <<>> /\ ci' = 0 /\ found_url_for_combo' = <<>>
    /\ UNCHANGED states_to_process
    /\ IF yi < Len(SortedYears)
       THEN si' = si /\ yi' = yi + 1 /\ pc' = "key"
       ELSE /\ si' = si + 1 /\ yi' = 1
            /\ pc' = IF si < Len(states_to_process) THEN "key" ELSE "finish"

\* go on in the candidate loop, lines 386-392, with the failure set as it will be
GoNextCandidate ==
    LET n == NextCandidate(urls_to_try, ci + 1, is_retry_target, failed_urls_set')
    IN  IF n <= Len(urls_to_try)
        THEN /\ ci' = n /\ pc' = "cand"
             /\ UNCHANGED <<states_to_process, si, yi, urls_to_try, found_url_for_combo>>
        ELSE GoNextKey

\* go on in the update loop, line 246
GoNextItem ==
    LET n == NextItem(sorted_log_items, ui + 1, targets, download_log)
    IN  /\ ui' = n
        /\ pc' = IF n <= Len(sorted_log_items) THEN "update" ELSE "ufinish"
        /\ UNCHANGED <<targets, sorted_log_items>>

(***************************************************************************)
(* Local filesystem failures: a directory creation, a document write, a    *)
(* write or replace of the success log, or the append of a failure row     *)
(* fails.  The directories whose creation may fail are those of            *)
(* MkdirFaultYears; the appends that may fail are those of the rows for    *)
(* the first 2024 candidate and for the 2018 URL.                          *)
(***************************************************************************)
Fault == faults < MaxFaults /\ faults' = faults + 1 /\ runFaulted' = TRUE
NoFault == UNCHANGED <<faults, runFaulted>>
MkdirFaultYears == {2022}
AppendFaultPool ==
    {GenerateURLs(p[1], n, filename_name(n))[p[2]] :
        p \in {<<2024, 1>>, <<2018, 1>>}, n \in Range(listing.names)}

(***************************************************************************)
(* Start of the process, lines 204-244 and 300-310.                        *)
(***************************************************************************)
\* the process starts with `loaded` as what load_download_log returned
Begin(loaded, read_failed) ==
    /\ \E cmd \in lines :
        LET t == parse_update_targets(cmd.update)
            items == SortedKeys(DOMAIN loaded)
            first == NextItem(items, 1, t, loaded)
        IN  /\ args' = cmd
            /\ startLog' = loaded
            /\ startFailed' = load_failed_urls_set(failFile)
            /\ IF cmd.mode = "update"
               THEN IF loaded = EmptyLog
                    THEN Exit("exit0")
                    ELSE /\ download_log' = loaded /\ failed_urls_set' = {}
                         /\ targets' = t /\ sorted_log_items' = items /\ ui' = first
                         /\ pc' = IF first <= Len(items) THEN "update" ELSE "ufinish"
                         /\ exit_status' = "running"
                         /\ UNCHANGED <<loopVars, att, hist, lastOutcome, slept>>
               ELSE /\ download_log' = loaded
                    /\ failed_urls_set' = load_failed_urls_set(failFile)
                    /\ pc' = "listing" /\ exit_status' = "running"
                    /\ UNCHANGED <<loopVars, updVars, att, hist, lastOutcome, slept>>
    /\ prev' = [kind |-> IF exit_status = "none" THEN "none"
                         ELSE IF exit_status = "killed" THEN "killed"
                         ELSE IF args.mode = "standard" /\ exit_status = "exit0"
                         THEN "standard" ELSE "other",
                faulted |-> runFaulted]
    /\ runs' = runs + 1 /\ runFaulted' = read_failed
    /\ faults' = IF read_failed THEN faults + 1 ELSE faults
    /\ UNCHANGED <<envVars, durVars, flaked>>

StartRun ==
    /\ pc = "idle" /\ runs < MaxRuns
    /\ Begin(load_download_log(logFile), FALSE)

\* lines 48-57: reading the success log fails part-way; load_download_log
\* reports it and returns the entries of the rows read so far
StartRunReadError ==
    /\ pc = "idle" /\ runs < MaxRuns
    /\ faults < MaxFaults /\ logFile.exists
    /\ \E n \in 0..(Len(logFile.rows) - 1) :
            Begin(LoadRows(SubSeq(logFile.rows, 1, n), EmptyLog), TRUE)

(***************************************************************************)
(* The state list, lines 312-348.                                          *)
(***************************************************************************)
\* what one GET of BASE_URL yields: the site's listing, or no usable page
\* when the request fails this time
ListingAnswers == {listing, [ok |-> FALSE, names |-> <<>>]}

\* a listing that is taken for good whatever came back
state_list_error_never(page) == FALSE

\* lines 315-326: the request failed or the page has no states dropdown
state_list_error(page) == ~page.ok

\* a filter that lets every listed state through
filter_states_all(all_states_fetched, retry) == all_states_fetched

\* line 332: the listed states that --try-again names
filter_states(all_states_fetched, retry) ==
    SelectSeq(all_states_fetched, LAMBDA st : st.name \in retry)

FetchStateList ==
    /\ pc = "listing"
    /\ \E page \in ListingAnswers :
       IF state_list_error(page)
       THEN Exit("exit1")
       ELSE LET all_states_fetched ==
                    [i \in 1..Len(page.names) |->
                        [name |-> page.names[i],
                         filename_name |-> filename_name(page.names[i])]]
                filtered ==
                    IF retry_states # {}
                    THEN filter_states(all_states_fetched, retry_states)
                    ELSE all_states_fetched
                sorted == SortSeq(filtered, LAMBDA a, b : StrLess(a.name, b.name))
            IN  IF retry_states # {} /\ filtered = <<>>
                THEN Exit("exit0")
                ELSE /\ states_to_process' = sorted
                     /\ si' = 1 /\ yi' = 1
                     /\ pc' = IF sorted = <<>> THEN "finish" ELSE "key"
                     /\ UNCHANGED <<exit_status, memVars, urls_to_try, ci,
                                    found_url_for_combo, updVars, att, hist, lastOutcome,
                                    slept>>
    /\ UNCHANGED <<envVars, durVars, args, startLog, startFailed, flaked, prev, runs,
                   faults, runFaulted>>

(***************************************************************************)
(* One (state, plan year): lines 354-383 and the entry of the candidate    *)
(* loop.                                                                   *)
(***************************************************************************)
EnterKey ==
    /\ pc = "key"
    /\ IF InSuccessLog(log_key, download_log)
       THEN GoNextKey /\ NoFault
       ELSE \/ LET urls == GenerateURLs(plan_year, state_name, state_fname_part)
                   n == NextCandidate(urls, 1, is_retry_target, failed_urls_set)
               IN  /\ NoFault
                   /\ IF n <= Len(urls)
                      THEN /\ urls_to_try' = urls /\ ci' = n /\ pc' = "cand"
                           /\ found_url_for_combo' = <<>>
                           /\ UNCHANGED <<states_to_process, si, yi>>
                      ELSE GoNextKey
            \/ Fault /\ plan_year \in MkdirFaultYears /\ GoNextKey
    /\ lastOutcome' = "none"
    /\ UNCHANGED <<envVars, durVars, args, exit_status, memVars, updVars, att, hist,
                   slept, startLog, startFailed, flaked, prev, runs>>

(***************************************************************************)
(* What the main loop does with the result of attempt_download.            *)
(***************************************************************************)
\* a loop that records a success in memory and leaves the file for later
RecordSuccess_unsaved(current_try_result) ==
    /\ UNCHANGED failed_urls_set
    /\ download_log' = Put(download_log, log_key, current_try_result)
    /\ GoNextKey

\* a loop that does not take note of a success and goes on to the next candidate
RecordSuccess_unnoticed(current_try_result) ==
    UNCHANGED memVars /\ GoNextCandidate

\* lines 395-398
RecordSuccess(current_try_result) ==
    /\ UNCHANGED failed_urls_set
    /\ IF log_key \notin DOMAIN download_log \/ download_log[log_key] # current_try_result
       THEN /\ download_log' = Put(download_log, log_key, current_try_result)
            /\ found_url_for_combo' = current_try_result
            /\ pc' = "save"
            /\ UNCHANGED <<states_to_process, si, yi, urls_to_try, ci>>
       ELSE UNCHANGED download_log /\ GoNextKey

\* a loop that writes a row for every failed attempt
RecordFailure_always_logs(failed_url) ==
    /\ UNCHANGED <<download_log, loopVars>>
    /\ failed_urls_set' = failed_urls_set \cup {failed_url}
    /\ pc' = "append"

\* a loop that gives the run up at the first failed URL
RecordFailure_gives_up(failed_url) ==
    UNCHANGED <<memVars, loopVars>> /\ pc' = "finish"

\* a loop that keeps no note of a failed URL
RecordFailure_unnoticed(failed_url) ==
    UNCHANGED memVars /\ GoNextCandidate

\* line 400 and log_failed_url, lines 95-97
RecordFailure(failed_url) ==
    /\ UNCHANGED download_log
    /\ IF failed_url # <<>> /\ failed_url \notin failed_urls_set
       THEN /\ failed_urls_set' = failed_urls_set \cup {failed_url}
            /\ pc' = "append"
            /\ UNCHANGED loopVars
       ELSE UNCHANGED failed_urls_set /\ GoNextCandidate

\* history: the GET of line 121 is issued for url, while working on key
Fetched(key, url) ==
    hist' = IF hist.key = key THEN [hist EXCEPT !.urls = Append(@, url)]
            ELSE [key |-> key, urls |-> <<url>>]

\* the ways a request can fail at url: a hosted document can only fail to arrive;
\* elsewhere the site answers 404, and at the URLs of the pool it may also
\* answer 500
FailuresAt(url) ==
    IF url \in hosted THEN TransportKinds
    ELSE IF url \in DocPool(Range(listing.names)) THEN FailKinds \ TransportKinds
    ELSE {"404"}

\* history: the URLs whose latest request ended in a transport error
Flaked(url, outcome) ==
    flaked' = IF outcome \in TransportKinds THEN flaked \cup {url} ELSE flaked \ {url}

\* a download routine that does not pause before the requests for the 2016
\* and 2018 plans
sleep_before_request_modern_only(url, target_save_dir) ==
    IF target_save_dir \in {year_dir(2016), year_dir(2018)} THEN 0
    ELSE DELAY_BETWEEN_ATTEMPTS

\* lines 116-117: the seconds attempt_download sleeps before its GET of line 121
sleep_before_request(url, target_save_dir) == DELAY_BETWEEN_ATTEMPTS

(***************************************************************************)
(* attempt_download up to the response, lines 113-135 and 147-157, called  *)
(* from the candidate loop (line 394).                                     *)
(***************************************************************************)
Attempt ==
    /\ pc = "cand"
    /\ LET full_url == urls_to_try[ci]
       IN  /\ slept' = sleep_before_request(full_url, year_dir(plan_year))
           /\ Fetched(log_key, full_url)
           /\ \/ /\ full_url \in hosted
                 /\ LET final_url == FinalURL(full_url)
                        filepath == FilePath(year_dir(plan_year), final_url)
                    IN  IF filepath \in DOMAIN disk
                        THEN /\ lastOutcome' = "existing" /\ att' = NoAttempt
                             /\ Flaked(full_url, "existing")
                             /\ RecordSuccess(final_url)
                        ELSE /\ lastOutcome' = "none"
                             /\ Flaked(full_url, "none")
                             /\ att' = [url |-> full_url, final_url |-> final_url,
                                        filepath |-> filepath]
                             /\ pc' = "write"
                             /\ UNCHANGED <<memVars, loopVars>>
              \/ /\ \E kind \in FailuresAt(full_url) :
                        lastOutcome' = kind /\ Flaked(full_url, kind)
                 /\ att' = NoAttempt
                 /\ RecordFailure(full_url)
    /\ UNCHANGED <<envVars, durVars, args, exit_status, updVars,
                   startLog, startFailed, prev, runs, faults, runFaulted>>

(***************************************************************************)
(* attempt_download from the update loop, line 273, and lines 275-282.     *)
(***************************************************************************)
\* an update loop that drops a key whose stored URL no longer answers
UpdateResult_demote(key, result_url) ==
    /\ UNCHANGED failed_urls_set
    /\ download_log' = IF result_url = <<>>
                       THEN [k \in DOMAIN download_log \ {key} |-> download_log[k]]
                       ELSE download_log

\* lines 275-282: the result is counted and reported, the logs are left alone
UpdateResult(key, result_url) == UNCHANGED memVars

UpdateAttempt ==
    /\ pc = "update"
    /\ LET key == sorted_log_items[ui]
           success_url == download_log[key]
       IN  /\ slept' = sleep_before_request(success_url, year_dir(key[1]))
           /\ Fetched(key, success_url)
           /\ \/ /\ success_url \in hosted
                 /\ LET final_url == FinalURL(success_url)
                        filepath == FilePath(year_dir(key[1]), final_url)
                    IN  IF filepath \in DOMAIN disk
                        THEN /\ lastOutcome' = "existing" /\ att' = NoAttempt
                             /\ Flaked(success_url, "existing")
                             /\ UpdateResult(key, final_url)
                             /\ GoNextItem
                        ELSE /\ lastOutcome' = "none"
                             /\ Flaked(success_url, "none")
                             /\ att' = [url |-> success_url, final_url |-> final_url,
                                        filepath |-> filepath]
                             /\ pc' = "write"
                             /\ UNCHANGED <<memVars, updVars>>
              \/ /\ \E kind \in FailuresAt(success_url) :
                        lastOutcome' = kind /\ Flaked(success_url, kind)
                 /\ att' = NoAttempt
                 /\ UpdateResult(key, <<>>)
                 /\ GoNextItem
    /\ UNCHANGED <<envVars, durVars, args, exit_status, loopVars,
                   startLog, startFailed, prev, runs, faults, runFaulted>>

(***************************************************************************)
(* attempt_download writing the body, lines 136-146, and what the caller   *)
(* does with the result.                                                   *)
(***************************************************************************)
Write ==
    /\ pc = "write"
    /\ \/ /\ NoFault
          /\ disk' = Put(disk, att.filepath, "full")
          /\ lastOutcome' = "new"
          /\ IF args.mode = "update"
             THEN /\ UpdateResult(sorted_log_items[ui], att.final_url)
                  /\ GoNextItem /\ UNCHANGED loopVars
             ELSE RecordSuccess(att.final_url) /\ UNCHANGED updVars
       \/ /\ Fault
          /\ disk' \in {disk, Put(disk, att.filepath, "partial")}
          /\ lastOutcome' = "WriteError"
          /\ IF args.mode = "update"
             THEN /\ UpdateResult(sorted_log_items[ui], <<>>)
                  /\ GoNextItem /\ UNCHANGED loopVars
             ELSE RecordFailure(att.url) /\ UNCHANGED updVars
    /\ att' = NoAttempt
    /\ UNCHANGED <<envVars, logFile, tmpFile, failFile, args, exit_status, hist,
                   slept, startLog, startFailed, flaked, prev, runs>>

(***************************************************************************)
(* save_download_log, lines 61-73: the temporary file, then os.replace.    *)
(***************************************************************************)
\* a replace that loses the last row of the table
Replaced_truncated(old, temp) ==
    [exists |-> TRUE, rows |-> SubSeq(temp.rows, 1, Len(temp.rows) - 1)]

\* a replace that leaves the old file in place
Replaced_not(old, temp) == old

\* os.replace(temp_filename, filename), line 72: what filename then holds
Replaced(old, temp) == temp

SaveTemp ==
    /\ pc = "save"
    /\ \/ /\ NoFault
          /\ tmpFile' = File(SaveRows(download_log))
          /\ pc' = "replace"
          /\ UNCHANGED loopVars
       \/ /\ Fault
          /\ tmpFile' \in {tmpFile} \cup {File(r) : r \in Prefixes(SaveRows(download_log))}
          /\ GoNextKey
    /\ lastOutcome' = "none"
    /\ UNCHANGED <<envVars, logFile, failFile, disk, args, exit_status, memVars, updVars,
                   att, hist, slept, startLog, startFailed, flaked, prev, runs>>

Replace ==
    /\ pc = "replace"
    /\ \/ NoFault /\ logFile' = Replaced(logFile, tmpFile) /\ tmpFile' = NoFile
       \/ Fault /\ UNCHANGED <<logFile, tmpFile>>
    /\ GoNextKey
    /\ UNCHANGED <<envVars, failFile, disk, args, exit_status, memVars, updVars,
                   att, hist, lastOutcome, slept, startLog, startFailed, flaked, prev,
                   runs>>

(***************************************************************************)
(* log_failed_url writing the row, lines 99-111.                           *)
(***************************************************************************)
AppendFailure ==
    /\ pc = "append"
    /\ \/ /\ NoFault
          /\ failFile' = File(Append(failFile.rows,
                                     FailedRow(plan_year, state_name, urls_to_try[ci])))
       \/ Fault /\ urls_to_try[ci] \in AppendFaultPool /\ UNCHANGED failFile
    /\ UNCHANGED memVars
    /\ GoNextCandidate
    /\ lastOutcome' = "none"
    /\ UNCHANGED <<envVars, logFile, tmpFile, disk, args, exit_status, updVars,
                   att, hist, slept, startLog, startFailed, flaked, prev, runs>>

(***************************************************************************)
(* The summaries, lines 284-293 and 406-418; the process then ends.        *)
(***************************************************************************)
Finish ==
    /\ pc = "finish"
    /\ Exit("exit0")
    /\ UNCHANGED <<envVars, durVars, args, startLog, startFailed, flaked, prev, runs,
                   faults, runFaulted>>

UpdateFinish ==
    /\ pc = "ufinish"
    /\ Exit("exit0")
    /\ UNCHANGED <<envVars, durVars, args, startLog, startFailed, flaked, prev, runs,
                   faults, runFaulted>>

(***************************************************************************)
(* The environment: the process is killed; a downloaded file is removed.   *)
(***************************************************************************)
Interrupt ==
    /\ pc # "idle" /\ runs < MaxRuns
    /\ Exit("killed")
    /\ IF pc = "write"
       THEN disk' \in {disk, Put(disk, att.filepath, "partial")}
       ELSE UNCHANGED disk
    /\ IF pc = "save"
       THEN tmpFile' \in {tmpFile} \cup {File(r) : r \in Prefixes(SaveRows(download_log))}
       ELSE UNCHANGED tmpFile
    /\ UNCHANGED <<envVars, logFile, failFile, args, startLog, startFailed, flaked, prev,
                   runs, faults, runFaulted>>

\* between runs the operator removes a downloaded file
RemoveFile ==
    /\ pc = "idle" /\ runs > 0 /\ runs < MaxRuns /\ "update" \in {c.mode : c \in lines}
    /\ \E path \in DOMAIN disk : disk' = [q \in DOMAIN disk \ {path} |-> disk[q]]
    /\ UNCHANGED <<envVars, logFile, tmpFile, failFile, pc, args, exit_status, memVars,
                   loopVars, updVars, att, startLog, startFailed, hist, lastOutcome, slept,
                   flaked, prev, runs, faults, runFaulted>>

Next ==
    \/ StartRun
    \/ FetchStateList
    \/ EnterKey
    \/ Attempt
    \/ UpdateAttempt
    \/ Write
    \/ SaveTemp
    \/ Replace
    \/ AppendFailure
    \/ Finish
    \/ UpdateFinish
    \/ Interrupt
    \/ RemoveFile

Spec == Init /\ [][Next]_vars

(***************************************************************************)
(* The find/download modes alone: standard and --try-again runs.           *)
(***************************************************************************)
NextFind ==
    \/ StartRun
    \/ FetchStateList
    \/ EnterKey
    \/ Attempt
    \/ Write
    \/ SaveTemp
    \/ Replace
    \/ AppendFailure
    \/ Finish
    \/ Interrupt

SpecFind == InitFind /\ [][NextFind]_vars

(***************************************************************************)
(* Standard runs alone.                                                    *)
(***************************************************************************)
SpecStandard == InitStandard /\ [][NextFind]_vars

(***************************************************************************)
(* Standard runs in which the read of the success log may fail.            *)
(***************************************************************************)
NextRead ==
    \/ NextFind
    \/ StartRunReadError

SpecRead == InitStandard /\ [][NextRead]_vars

(***************************************************************************)
(* --try-again runs alone, against a site that lists two states: the       *)
(* command line names Ohio and Guam, or Guam alone; the site lists Ohio    *)
(* and New York, or New York alone.                                        *)
(***************************************************************************)
TwoStateListings == {[ok |-> TRUE, names |-> <<Ohio, NewYork>>],
                     [ok |-> TRUE, names |-> <<NewYork>>]}
TryAgainLines ==
    {[mode |-> "retry", try_again |-> a, update |-> <<>>] : a \in {<<Ohio, Guam>>, <<Guam>>}}
InitRetry == StartFrom(TwoStateListings, TryAgainLines)
SpecRetry == InitRetry /\ [][NextFind]_vars

(***************************************************************************)
(* Properties.                                                             *)
(***************************************************************************)
Candidates(key) == GenerateURLs(key[1], key[2], filename_name(key[2]))

\* this step issues a GET: the history gains a URL
Fetches == hist' # hist /\ hist'.urls # <<>>
FetchedURL == hist'.urls[Len(hist'.urls)]

\* this step ends the work on the current (state, plan year) and the run goes on
KeyLeft ==
    /\ pc \in {"key", "cand", "write", "save", "replace", "append"}
    /\ pc' \in {"key", "finish"}
    /\ <<si', yi'>> # <<si, yi>>

\* C1: in a standard run no GET is issued for a candidate URL of a key that
\* was in the success log loaded at the start of the run
C1_LoggedKeysNotFetched ==
    args.mode = "standard" =>
        \A key \in DOMAIN startLog :
            \A i \in 1..Len(hist.urls) : hist.urls[i] \notin Range(Candidates(key))

\* a standard run that loaded a non-empty success log has probed another key
C1_Witness ==
    /\ args.mode = "standard" /\ pc = "finish"
    /\ startLog # EmptyLog /\ hist.urls # <<>>

\* C2: in a standard run no GET is issued for a URL that is in the failure
\* set, whether it was loaded at the start or added earlier in the run
C2_FailedURLsNotFetched ==
    [][(args.mode = "standard" /\ Fetches) =>
            FetchedURL \notin failed_urls_set \cup load_failed_urls_set(failFile)]_vars

\* a standard run has skipped a candidate of the failure set and fetched a later
\* candidate of the same key
C2_Witness ==
    /\ args.mode = "standard" /\ pc \in {"cand", "append"}
    /\ hist.key = log_key /\ hist.urls # <<>>
    /\ \E j \in 1..ci : /\ urls_to_try[j] \in startFailed
                          /\ urls_to_try[j] \notin Range(hist.urls)

C4_OrderedUntilFirstSuccess ==
    [][/\ (args.mode # "update" /\ Fetches) =>
            /\ hist'.key \notin DOMAIN download_log
            /\ urls_to_try = Candidates(hist'.key)
            /\ \E n \in 1..Len(urls_to_try) :
                    /\ urls_to_try[n] = FetchedURL
                    /\ \A i \in 1..(Len(hist'.urls) - 1) :
                            \E m \in 1..(n - 1) : urls_to_try[m] = hist'.urls[i]
       /\ (args.mode # "update" /\ pc \in {"cand", "write"}
                /\ lastOutcome' \in {"existing", "new"}) =>
            /\ log_key \in DOMAIN download_log'
            /\ download_log'[log_key] = FetchedURL
            /\ pc' \notin {"cand", "append", "write"}]_vars

\* the third candidate of a key succeeded after two failures and is recorded
C4_Witness ==
    /\ args.mode # "update" /\ pc = "save"
    /\ Len(hist.urls) >= 3 /\ lastOutcome = "new"
    /\ download_log[hist.key] = hist.urls[Len(hist.urls)]

\* a standard run has ended, and the run before it was a standard run that ended
TwoStandardRuns ==
    /\ pc = "idle" /\ exit_status = "exit0" /\ args.mode = "standard"
    /\ prev.kind = "standard"

\* the second run left the success log as the first had left it, and the
\* failure set holds what it held after the first
SecondRunChangedNothing ==
    /\ load_download_log(logFile) = startLog
    /\ startFailed \subseteq load_failed_urls_set(failFile)

C6_LogWellFormed ==
    pc = "idle" =>
        /\ \A i \in 1..Len(logFile.rows) :
                /\ logFile.rows[i].URL # <<>>
                /\ \A j \in 1..Len(logFile.rows) :
                        (logFile.rows[i].Year = logFile.rows[j].Year
                            /\ logFile.rows[i].State = logFile.rows[j].State) => i = j
        /\ \A key \in DOMAIN load_download_log(logFile) :
                load_download_log(logFile)[key] # <<>>

\* a run other than the first has ended and the success log has two rows
C6_Witness ==
    /\ pc = "idle" /\ prev.kind # "none" /\ exit_status = "exit0"
    /\ Len(logFile.rows) >= 2

\* the records of the success log `a` are all in `b`
LogWithin(a, b) == \A key \in DOMAIN a : key \in DOMAIN b /\ b[key] = a[key]

\* outcomes the process holds in memory that are not in the durable logs
NotDurable ==
    Cardinality({key \in DOMAIN download_log :
                    ~LogWithin([k \in {key} |-> download_log[k]],
                               load_download_log(logFile))})
    + Cardinality(failed_urls_set \ load_failed_urls_set(failFile))

\* a standard run started after a find/download run was interrupted: it writes
\* no document that is fully written, and the durable records stay
RestartKeepsWhatIsDurable ==
    (prev.kind = "killed" /\ args.mode = "standard" /\ pc # "idle") =>
        /\ \A path \in DOMAIN disk :
                disk[path] = "full" =>
                    /\ path \in DOMAIN disk' /\ disk'[path] = "full"
                    /\ ~(pc = "write" /\ att.filepath = path)
        /\ LogWithin(load_download_log(logFile), load_download_log(logFile'))
        /\ load_failed_urls_set(failFile) \subseteq load_failed_urls_set(failFile')
        /\ LogWithin(startLog, download_log)
        /\ startFailed \subseteq failed_urls_set

\* this step is the interruption of a find/download run
Interrupted == pc # "idle" /\ exit_status' = "killed" /\ args.mode # "update"

C8_UpdateLeavesLogs ==
    [][(args.mode = "update" /\ pc # "idle") =>
            /\ logFile' = logFile /\ failFile' = failFile
            /\ pc' # "idle" =>
                    /\ download_log' = download_log
                    /\ failed_urls_set' = failed_urls_set]_vars

\* in an --update run the stored URL of a key has failed, and the key is
\* still in the success log
C8_Witness ==
    /\ args.mode = "update" /\ lastOutcome \in FailKinds
    /\ hist.key \in DOMAIN download_log
    /\ hist.key \in DOMAIN load_download_log(logFile)
    /\ hist.urls = <<download_log[hist.key]>>

\* C9 as stated: a URL whose request ended in a transport error is not fetched
\* a second time in the run, and a later run that reaches its key, the
\* directory created and the key still unresolved on leaving it, has fetched
\* the URL again
C9_TransportErrorRetriedByLaterRun ==
    [][/\ (args.mode # "update" /\ Fetches /\ hist'.key = hist.key) =>
            FetchedURL \notin Range(hist.urls)
       /\ (args.mode # "update" /\ KeyLeft /\ faults' = faults
                /\ log_key \notin DOMAIN download_log') =>
            \A u \in flaked' \cap Range(Candidates(log_key)) :
                hist'.key = log_key /\ u \in Range(hist'.urls)]_vars

\* C10 as stated: after a write of the response body has failed, the probe has
\* no result (in a find/download run the key is not recorded) and there is no
\* file at the target path
C10_WriteFailureLeavesNoFile ==
    lastOutcome = "WriteError" =>
        /\ args.mode # "update" => hist.key \notin DOMAIN download_log
        /\ FilePath(year_dir(hist.key[1]), FinalURL(hist.urls[Len(hist.urls)]))
                \notin DOMAIN disk

LegacyYears == {2016, 2018}
ModernYears == {2020, 2022, 2024}

\* the process is in the candidate loop of a find/download run
InCandidateLoop ==
    args.mode # "update" /\ pc \in {"cand", "write", "save", "replace", "append"}

\* C11: for 2016 and 2018 one candidate is generated for every state listed;
\* at most one GET is issued for such a key, and when it fails the key is
\* done with once the failure is logged
C11_LegacyOneCandidate ==
    /\ [](/\ \A n \in Range(listing.names) : \A y \in LegacyYears :
                Len(Candidates(<<y, n>>)) = 1
          /\ (InCandidateLoop /\ plan_year \in LegacyYears) =>
                /\ Len(urls_to_try) = 1
                /\ hist.key = log_key => Len(hist.urls) <= 1)
    /\ [][(InCandidateLoop /\ plan_year \in LegacyYears /\ pc \in {"cand", "append"}
                /\ lastOutcome' \notin {"existing", "new"} /\ exit_status' # "killed"
                /\ pc' # "append" /\ pc' # "write")
            => KeyLeft]_vars

\* the 2018 URL of a state has answered 404, was logged, and the run is at
\* the 2016 key
C11_Witness ==
    /\ args.mode # "update" /\ pc = "key" /\ yi = 5
    /\ hist.key = <<2018, state_name>> /\ Len(hist.urls) = 1
    /\ hist.urls[1] \in failed_urls_set

RECURSIVE Flatten(_)
Flatten(seqs) == IF seqs = <<>> THEN <<>> ELSE Head(seqs) \o Flatten(Tail(seqs))

\* the product the candidates of a modern year are to be: folders, then the
\* one stem, then the four suffixes, then the one extension, each file name
\* under the folder with one separator and then with two
ProductFolders(year) == <<YearDigits[year], YearDigits[year + 1]>>
ProductStem(year, fname_part) ==
    fname_part \o <<"_PYs_", PLAN_YEAR_RANGES[year]>>
        \o (IF year = 2022 THEN <<"_(mod)">> ELSE <<>>)
ProductSuffixes == << <<>>, <<"_0">>, <<"_1">>, <<"_2">> >>
ProductExtension(year) == IF year = 2024 THEN ".docx" ELSE ".pdf"
ProductURLs(year, fname_part) ==
    Flatten([f \in 1..2 |->
        Flatten([x \in 1..4 |->
            LET fname == ProductStem(year, fname_part) \o ProductSuffixes[x]
                            \o <<ProductExtension(year)>>
                root == <<BASE_URL, FILE_BASE_PATH_PDFS, ProductFolders(year)[f]>>
            IN  <<root \o <<"/">> \o fname, root \o <<"//">> \o fname>>])])

\* C12: the candidates of a modern year are that product in that order, no
\* two of them the same
C12_ModernCandidatesAreTheProduct ==
    (InCandidateLoop /\ pc = "cand" /\ plan_year \in ModernYears) =>
        /\ urls_to_try = ProductURLs(plan_year, state_fname_part)
        /\ \A i, j \in 1..Len(urls_to_try) : urls_to_try[i] = urls_to_try[j] => i = j

\* the run has come to the last 2022 candidate of a state with a two-word name
C12_Witness ==
    /\ InCandidateLoop /\ pc = "cand" /\ plan_year = 2022 /\ ci = 16
    /\ Len(state_name) > 1

\* C13: a find/download run whose listing request fails ends with status 1;
\* it has fetched no candidate and has changed neither log, and it always
\* ends so when the site has no usable listing
C13_ListingFailureIsFatal ==
    [][(pc = "listing" /\ exit_status' # "killed") =>
            /\ ~listing.ok => exit_status' = "exit1"
            /\ exit_status' = "exit1" =>
                    /\ pc' = "idle" /\ hist.urls = <<>>
                    /\ download_log = startLog /\ failed_urls_set = startFailed
                    /\ logFile' = logFile /\ failFile' = failFile /\ disk' = disk
                    /\ load_download_log(logFile') = startLog
                    /\ load_failed_urls_set(failFile') = startFailed]_vars

\* a run that found both logs filled has ended with status 1, the logs as they were
C13_Witness ==
    /\ pc = "idle" /\ exit_status = "exit1"
    /\ startLog # EmptyLog /\ startFailed # {}
    /\ load_download_log(logFile) = startLog
    /\ load_failed_urls_set(failFile) = startFailed

(***************************************************************************)
(* Find/download runs that are not killed: the process takes its next step *)
(* as long as it has one.                                                  *)
(***************************************************************************)
NextRun ==
    \/ StartRun
    \/ FetchStateList
    \/ EnterKey
    \/ Attempt
    \/ Write
    \/ SaveTemp
    \/ Replace
    \/ AppendFailure
    \/ Finish

SpecRun == InitFind /\ [][NextRun]_vars /\ WF_vars(NextRun)

\* this step of a find/download run meets an error of a candidate: a request
\* fails, the body or a log cannot be written
CandidateError ==
    /\ InCandidateLoop
    /\ \/ pc \in {"cand", "write"} /\ lastOutcome' \in FailKinds \cup {"WriteError"}
       \/ faults' # faults

\* every (state, year) in scope is recorded, or has all its candidates in the
\* failure set, or its directory could not be created
AllConsidered ==
    \A i \in 1..Len(states_to_process) : \A y \in Range(TARGET_PLAN_YEARS) :
        LET key == <<y, states_to_process[i].name>>
        IN  \/ key \in DOMAIN download_log
            \/ Range(Candidates(key)) \subseteq failed_urls_set
            \/ runFaulted /\ y \in MkdirFaultYears

\* C14: an error of a candidate does not end the run: the process goes on
\* with the logging of the failure, the next candidate or the next key, and a
\* run that has its state list comes to its end with every (state, year)
\* in scope dealt with
C14_CandidateErrorsNotFatal ==
    /\ [][CandidateError =>
            /\ exit_status' = "running"
            /\ pc' \in {"append", "cand", "key", "finish"}]_vars
    /\ [](pc = "finish" => AllConsidered)
    /\ (pc = "key") ~> (pc = "finish")

\* a run in which a request timed out and a local write failed is at its end
C14_Witness ==
    /\ pc = "finish" /\ runs = 1 /\ runFaulted /\ flaked # {}
    /\ failed_urls_set # {}

\* keys of the in-memory success map that the success log file does not hold
MissingInFile == DOMAIN download_log \ DOMAIN load_download_log(logFile)

\* C15: the success log file, when there is one, is always the whole table of
\* a success map; while a run is under way that map is part of the map in
\* memory, and, no local write having failed in the run, it is the map in
\* memory, but for the one key being saved while a save is under way
C15_LogFileIsWholeSnapshot ==
    /\ logFile.exists => logFile.rows = SaveRows(load_download_log(logFile))
    /\ pc # "idle" =>
            /\ LogWithin(load_download_log(logFile), download_log)
            /\ ~runFaulted =>
                    IF pc \in {"save", "replace"}
                    THEN MissingInFile \subseteq {log_key}
                    ELSE MissingInFile = {}

\* a run was killed during its second save: the temporary file is there
\* without a row, the success log holds the table of the first save
C15_Witness ==
    /\ pc = "idle" /\ exit_status = "killed"
    /\ tmpFile.exists /\ tmpFile.rows = <<>>
    /\ logFile.exists /\ Len(logFile.rows) = 1

C17_WriteAttemptedBeforeNextFetch ==
    [][(args.mode # "update" /\ pc \notin {"idle", "listing"} /\ pc' # "idle") =>
            /\ download_log' # download_log => pc' = "save"
            /\ failed_urls_set' # failed_urls_set => pc' = "append"
            /\ pc \in {"save", "replace", "append"} => ~Fetches
            /\ pc = "save" =>
                    \/ tmpFile' = File(SaveRows(download_log)) /\ pc' = "replace"
                    \/ faults' # faults
            /\ pc = "replace" => (logFile' = tmpFile \/ faults' # faults)
            /\ pc = "append" =>
                    \/ failFile'.rows = Append(failFile.rows,
                            FailedRow(plan_year, state_name, urls_to_try[ci]))
                    \/ faults' # faults
            /\ (Fetches /\ ~runFaulted) => NotDurable = 0]_vars

\* a candidate was fetched after the failure of the one before it was
\* appended to the failure log, and its own failure is about to be appended
C17_Witness ==
    /\ args.mode # "update" /\ pc = "append" /\ ~runFaulted
    /\ Len(hist.urls) >= 2 /\ NotDurable = 1
    /\ hist.urls[Len(hist.urls) - 1] \in load_failed_urls_set(failFile)
    /\ hist.urls[Len(hist.urls) - 1] \notin startFailed


(***************************************************************************)
(* C18: every request for a document, for a legacy plan year or a modern   *)
(* one, in the find/download modes and in the update mode, after a failed  *)
(* request as after a successful one, is issued right after a sleep of     *)
(* DELAY_BETWEEN_ATTEMPTS seconds.                                         *)
(***************************************************************************)
C18_DelayBeforeEveryFetch ==
    [][Fetches => slept' = DELAY_BETWEEN_ATTEMPTS /\ DELAY_BETWEEN_ATTEMPTS > 0]_vars

\* a second request for the same key, for a legacy year, after a failed one elsewhere
C18_Witness ==
    /\ pc # "idle" /\ hist.key # <<>> /\ hist.key[1] \in LegacyYears
    /\ Len(hist.urls) >= 1 /\ slept = DELAY_BETWEEN_ATTEMPTS
    /\ failed_urls_set \ startFailed # {}
    /\ DOMAIN download_log \ DOMAIN startLog # {}

\* the URL of entity_text.pdf under the legacy path of a plan year
LegacyForm(year, entity_text) ==
    urljoin(BASE_URL, Cat(<<FILE_BASE_PATH_PLANS, YearDigits[year], "/">>
                            \o entity_text \o <<".pdf">>))

\* a run of the find/download modes is at its first candidate of a legacy year
AtLegacyCandidate == args.mode # "update" /\ pc = "cand" /\ plan_year \in LegacyYears

(***************************************************************************)
(* C19 as stated: for 2016 and 2018 the one candidate is                   *)
(* FILE_BASE_PATH_PLANS/year/filename_name.pdf, with filename_name the     *)
(* listed name with its blanks replaced, also for a name with a blank.     *)
(***************************************************************************)
C19_LegacyURLFromFilenameName ==
    AtLegacyCandidate => urls_to_try = <<LegacyForm(plan_year, state_fname_part)>>

(***************************************************************************)
(* C19 amended: for 2016 and 2018 the one candidate, and the URL fetched,  *)
(* is FILE_BASE_PATH_PLANS/year/quote(name).pdf, the listed name           *)
(* percent-encoded; it is the URL of the filename-safe name exactly when   *)
(* the listed name has no blank.                                           *)
(***************************************************************************)
C19_LegacyURLFromQuotedName ==
    /\ [](AtLegacyCandidate =>
            /\ urls_to_try = <<LegacyForm(plan_year, quote(state_name))>>
            /\ state_fname_part = filename_name(state_name)
            /\ (urls_to_try = <<LegacyForm(plan_year, state_fname_part)>>)
                    <=> " " \notin Range(state_name))
    /\ [][(AtLegacyCandidate /\ Fetches) =>
            FetchedURL = LegacyForm(plan_year, quote(state_name))]_vars

\* the 2018 URL of New York has been requested
C19_Witness ==
    /\ args.mode # "update" /\ pc # "idle"
    /\ hist.key = <<2018, NewYork>> /\ Len(hist.urls) = 1
    /\ hist.urls[1] = LegacyForm(2018, <<"New", "%20", "York">>)

\* an --update target names the key: its state, its plan year, or state:year
NamedBy(arg, key) ==
    \/ arg = key[2]
    \/ arg = <<YearDigits[key[1]]>>
    \/ arg = key[2] \o <<":", YearDigits[key[1]]>>

\* the key matches the filter of the command line; no filter matches every key
MatchesFilter(update_args, key) ==
    update_args = <<>> \/ \E i \in 1..Len(update_args) : NamedBy(update_args[i], key)

\* a target with a colon whose part after the first colon is no year
Unparsable(arg) ==
    /\ ":" \in Range(arg)
    /\ ~ /\ Len(arg) >= 2 /\ arg[Len(arg) - 1] = ":"
         /\ arg[Len(arg)] \in {YearDigits[y] : y \in DOMAIN YearDigits}
         /\ ":" \notin Range(SubSeq(arg, 1, Len(arg) - 2))

\* a filter none of whose targets can be used is taken as no filter
Kept(update_args, key) ==
    \/ MatchesFilter(update_args, key)
    \/ \A i \in 1..Len(update_args) : Unparsable(update_args[i])

(***************************************************************************)
(* C20 as stated: an --update run requests only stored URLs of keys that   *)
(* match the filter given (every key when none is given).                  *)
(***************************************************************************)
C20_UpdateFetchesOnlyMatchingKeys ==
    [][(args.mode = "update" /\ Fetches) =>
            /\ hist'.key \in DOMAIN startLog
            /\ FetchedURL = startLog[hist'.key]
            /\ MatchesFilter(args.update, hist'.key)]_vars

(***************************************************************************)
(* C20 amended: an --update run walks the keys of the success log once, in *)
(* order; it requests the stored URL of each key that matches the filter,  *)
(* once, passes over the others, and requests nothing else; it generates   *)
(* no candidate.  A filter none of whose targets can be parsed counts as   *)
(* no filter: every key is probed.                                         *)
(***************************************************************************)
C20_UpdateFetchesStoredURLsOfKeptKeys ==
    /\ []((args.mode = "update" /\ pc # "idle") => urls_to_try = <<>> /\ ci = 0)
    /\ [][(args.mode = "update" /\ Fetches) =>
            /\ pc = "update" /\ hist'.key = sorted_log_items[ui]
            /\ hist'.key \in DOMAIN startLog
            /\ hist'.urls = <<startLog[hist'.key]>>
            /\ Kept(args.update, hist'.key)]_vars
    /\ [][(args'.mode = "update" /\ pc' # "idle" /\ ui' # ui) =>
            /\ ui' > ui
            /\ Range(sorted_log_items') = DOMAIN startLog'
            /\ Len(sorted_log_items') = Cardinality(DOMAIN startLog')
            /\ \A j \in (ui + 1)..(ui' - 1) : ~Kept(args'.update, sorted_log_items'[j])
            /\ ui' <= Len(sorted_log_items') => Kept(args'.update, sorted_log_items'[ui'])
            /\ ui >= 1 => hist'.key = sorted_log_items[ui]
            /\ pc' = IF ui' <= Len(sorted_log_items') THEN "update" ELSE "ufinish"]_vars

\* an --update run with a filter is over its log of two keys: it has probed
\* the one the filter names and passed over the other
C20_Witness ==
    /\ args.mode = "update" /\ args.update # <<>> /\ pc = "ufinish"
    /\ Len(sorted_log_items) = 2
    /\ hist.urls # <<>> /\ MatchesFilter(args.update, hist.key)
    /\ \E key \in DOMAIN download_log : ~Kept(args.update, key)

\* the states a --try-again run may work on: named on the command line and listed
NamedAndListed == Range(args.try_again) \cap Range(listing.names)

(***************************************************************************)
(* C21: a --try-again run requests documents only for states that are both *)
(* named on the command line and in the site's listing; a state named but  *)
(* not listed, or listed but not named, is never worked on, and a run none *)
(* of whose states is listed ends at once with status 0.                   *)
(***************************************************************************)
C21_RetryOnlyNamedAndListed ==
    /\ []((args.mode = "retry" /\ pc \notin {"idle", "listing"}) =>
            /\ {states_to_process[i].name : i \in 1..Len(states_to_process)}
                    = NamedAndListed
            /\ NamedAndListed # {}
            /\ hist.key # <<>> => hist.key[2] \in NamedAndListed)
    /\ [][(args.mode = "retry" /\ Fetches) =>
            /\ hist'.key[2] \in NamedAndListed
            /\ FetchedURL = urls_to_try[ci] /\ hist'.key = log_key]_vars

\* a --try-again Ohio Guam run against a site that lists Ohio and New York
\* is over, having requested a document for Ohio
C21_Witness ==
    /\ args.mode = "retry" /\ pc = "finish"
    /\ Guam \in Range(args.try_again) /\ NewYork \in Range(listing.names)
    /\ Ohio \in NamedAndListed
    /\ hist.key # <<>> /\ hist.key[2] = Ohio /\ hist.urls # <<>>

(***************************************************************************)
(* C22 as stated: whatever runs follow one another, a key that the success *)
(* log file holds stays in it, with the same URL.                          *)
(***************************************************************************)
C22_SuccessLogMonotone ==
    [][logFile' # logFile =>
            LogWithin(load_download_log(logFile), load_download_log(logFile'))]_vars

\* this step of a find/download run records the current key in the success log
KeyRecorded ==
    /\ args.mode # "update" /\ pc \in {"cand", "write"}
    /\ log_key \notin DOMAIN download_log /\ log_key \in DOMAIN download_log'

(***************************************************************************)
(* C23 as stated: when a key is recorded in the success log, the file its  *)
(* success rests on, at the path derived from the response, holds the      *)
(* whole response body.                                                    *)
(***************************************************************************)
C23_RecordedKeyHasCompleteFile ==
    [][KeyRecorded =>
            LET filepath == FilePath(year_dir(plan_year), download_log'[log_key])
            IN  filepath \in DOMAIN disk' /\ disk'[filepath] = "full"]_vars
=============================================================================
